---- MODULE Spec2Model ----
(***************************************************************************)
(* NoteKeeper: the db CRUD layer (db.js) over one localStorage slot, with  *)
(* the id and lookup helpers of Assets/JS/utils.js.                        *)
(*                                                                         *)
(* A JavaScript value that serves as an identifier is a record             *)
(* [typ, v]: typ is the JavaScript type ("str" or "num") and v the number  *)
(* whose decimal representation the string is.  Object members are record  *)
(* fields; arrays are sequences; array indices are 0-based as in the       *)
(* source wherever an index is a value of the program.                     *)
(*                                                                         *)
(* A second page of the same origin shares the slot (SpecTabs), and        *)
(* client.js keeps the sidebar and the note buttons (SpecUI).              *)
(***************************************************************************)
EXTENDS Integers, Sequences, FiniteSets, TLC

VARIABLES
  storage,       \* localStorage["noteKeeperDB"]: the serialized store, or NoItem
  noteKeeperDB,  \* the module-level in-memory store of db.js
  clock,         \* the reading of new Date().getTime()
  created,       \* number of notebooks and notes stored so far by db.post
  ret,           \* the db operation that ran last and what it returned
  other,         \* a second page on the same slot, inside db.post.notebook
  ui             \* client.js: the sidebar list and the note buttons

vars == <<storage, noteKeeperDB, clock, created, ret, other, ui>>

(***************************************************************************)
(* Bounds of the model.                                                    *)
(***************************************************************************)
MaxClock == 2
MaxCreated == 3
MaxItems == 3

(***************************************************************************)
(* Inputs.                                                                 *)
(***************************************************************************)
Str(n) == [typ |-> "str", v |-> n]
Num(n) == [typ |-> "num", v |-> n]

\* names: notebooks are created as "n1" and renamed to either name
NewNames == {"n1"}
Names == {"n1", "n2"}

\* {title, text} as NoteModal.onSubmit builds it for a new note
NewNoteFields == {[title |-> "t1", text |-> "x"]}

\* @param {string} notebookId / noteId: the identifiers callers pass
StrIds == {Str(n) : n \in 1..MaxClock}

\* partial note fields passed to db.update.note
OnlyText(text) == [k \in {"text"} |-> text]
PartialNoteFields ==
  {OnlyText("x"), OnlyText("y"), [title |-> "t1", text |-> "y"]}

(***************************************************************************)
(* JavaScript primitives used by the source.                               *)
(***************************************************************************)
Undefined == [typ |-> "undefined"]
\* localStorage.getItem of a key that was never set (falsy, like the empty text)
NoItem == <<>>

Min(a, b) == IF a < b THEN a ELSE b
Max(a, b) == IF a > b THEN a ELSE b

\* a == b on identifier values: a string and a number compare by the number
LooseEq(a, b) == a.v = b.v

\* a === b: same type and same value
StrictEq(a, b) == a.typ = b.typ /\ a.v = b.v

\* Array.prototype.findIndex, given for each element whether the callback
\* accepts it: the 0-based index of the first accepted element, else -1
FindIndex(accepted) ==
  IF \E i \in 1..Len(accepted) : accepted[i]
    THEN (CHOOSE i \in 1..Len(accepted) :
            accepted[i] /\ \A j \in 1..(i - 1) : ~accepted[j]) - 1
    ELSE -1

\* Array.prototype.splice(start, deleteCount) without inserted items:
\* a negative start counts from the end of the array
Splice(s, start, deleteCount) ==
  LET len == Len(s)
      actualStart == IF start < 0 THEN Max(len + start, 0) ELSE Min(start, len)
      actualDelete == Min(Max(deleteCount, 0), len - actualStart)
  IN SubSeq(s, 1, actualStart) \o SubSeq(s, actualStart + actualDelete + 1, len)

\* a push where the source has unshift
UnshiftAtEnd(s, e) == Append(s, e)

\* Array.prototype.unshift(e)
Unshift(s, e) == <<e>> \o s

\* an insertion at the front where the source has push
PushAtFront(s, e) == <<e>> \o s

\* Array.prototype.push(e)
Push(s, e) == Append(s, e)

\* an assignment that resets the title the source object does not carry
ObjectAssignResetTitle(target, source) ==
  [k \in DOMAIN target \cup DOMAIN source |->
     IF k \in DOMAIN source THEN source[k]
     ELSE IF k = "title" THEN "" ELSE target[k]]

\* Object.assign(target, source): own properties of source overwrite target's
ObjectAssign(target, source) ==
  [k \in DOMAIN target \cup DOMAIN source |->
     IF k \in DOMAIN source THEN source[k] ELSE target[k]]

(***************************************************************************)
(* JSON.stringify / JSON.parse of the store.  The text is modelled as the  *)
(* members' values in member order, nested as the objects are.             *)
(***************************************************************************)
StringifyNote(n) == <<n.id, n.notebookId, n.title, n.text, n.postedOn, n.seq>>

ParseNote(t) ==
  [id |-> t[1], notebookId |-> t[2], title |-> t[3], text |-> t[4],
   postedOn |-> t[5], seq |-> t[6]]

StringifyNotebook(b) ==
  <<b.id, b.name, [i \in 1..Len(b.notes) |-> StringifyNote(b.notes[i])]>>

ParseNotebook(t) ==
  [id |-> t[1], name |-> t[2],
   notes |-> [i \in 1..Len(t[3]) |-> ParseNote(t[3][i])]]

JSONstringify(db) ==
  <<"notebooks", [i \in 1..Len(db.notebooks) |-> StringifyNotebook(db.notebooks[i])]>>

JSONparse(t) ==
  [notebooks |-> [i \in 1..Len(t[2]) |-> ParseNotebook(t[2][i])]]

(***************************************************************************)
(* utils.js                                                                *)
(***************************************************************************)
\* generateID: the clock reading as a string
GenerateID(now) == Str(now)

\* position (1-based, 0 if none) of the notebook findNotebook returns; the
\* source holds a reference to that element and mutates it in place
FindNotebookPos(db, notebookId) ==
  FindIndex([i \in 1..Len(db.notebooks) |->
               LooseEq(db.notebooks[i].id, notebookId)]) + 1

FindNotebook(db, notebookId) ==
  IF FindNotebookPos(db, notebookId) = 0
    THEN Undefined
    ELSE db.notebooks[FindNotebookPos(db, notebookId)]

FindNotebookIndex(db, notebookId) ==
  FindIndex([i \in 1..Len(db.notebooks) |->
               StrictEq(db.notebooks[i].id, notebookId)])

FindNoteIndex(notebook, noteId) ==
  FindIndex([i \in 1..Len(notebook.notes) |->
               StrictEq(notebook.notes[i].id, noteId)])

\* <<p, q>>: findNote's result is note q of notebook p (1-based), the first
\* hit in store order; <<0, 0>> when the loop ends without a hit
FindNotePos(db, noteId) ==
  LET hit(p) == FindNoteIndex(db.notebooks[p], noteId) >= 0
  IN IF \E p \in 1..Len(db.notebooks) : hit(p)
       THEN LET p == CHOOSE i \in 1..Len(db.notebooks) :
                       hit(i) /\ \A j \in 1..(i - 1) : ~hit(j)
            IN <<p, FindNoteIndex(db.notebooks[p], noteId) + 1>>
       ELSE <<0, 0>>

FindNote(db, noteId) ==
  IF FindNotePos(db, noteId) = <<0, 0>>
    THEN Undefined
    ELSE db.notebooks[FindNotePos(db, noteId)[1]].notes[FindNotePos(db, noteId)[2]]

(***************************************************************************)
(* db.js: initDB, readDB, writeDB                                          *)
(***************************************************************************)
\* initDB applied to the slot's content: the in-memory store and the slot
InitDB(item) ==
  IF item # NoItem
    THEN [mem |-> JSONparse(item), item |-> item]
    ELSE [mem |-> [notebooks |-> <<>>],
          item |-> JSONstringify([notebooks |-> <<>>])]

\* readDB: the in-memory store becomes the parsed slot
ReadDB(item) == JSONparse(item)

\* a write that serializes the notebooks without their notes
WriteDBWithoutNotes(db) ==
  JSONstringify([notebooks |->
    [i \in 1..Len(db.notebooks) |-> [db.notebooks[i] EXCEPT !.notes = <<>>]]])

\* writeDB: the slot becomes the serialized in-memory store
WriteDB(db) == JSONstringify(db)

(***************************************************************************)
(* What a db operation leaves behind: the in-memory store (mem), the slot  *)
(* (item) and the outcome (ret).  ret.kind is the shape of the returned    *)
(* value; a TypeError raised by a member access on undefined is "throw",   *)
(* and then writeDB() was not reached.                                     *)
(***************************************************************************)
Returned(op, kind, val) == [op |-> op, kind |-> kind, val |-> val]

Done(db, op, kind, val) ==
  [mem |-> db, item |-> WriteDB(db), ret |-> Returned(op, kind, val)]

\* a lookup that fails silently: the operation returns undefined
FailedSilently(db, item, op) ==
  [mem |-> db, item |-> item, ret |-> Returned(op, "undefined", Undefined)]

Threw(db, item, op) ==
  [mem |-> db, item |-> item, ret |-> Returned(op, "throw", "TypeError")]

Read(db, item, op, kind, val) ==
  [mem |-> db, item |-> item, ret |-> Returned(op, kind, val)]

(***************************************************************************)
(* db.post                                                                 *)
(***************************************************************************)
\* a note that records its own id as its notebook's
NoteDataOwnId(id, notebookId, object, postedOn, seq) ==
  [id |-> id, notebookId |-> id, title |-> object.title,
   text |-> object.text, postedOn |-> postedOn, seq |-> seq]

NotebookData(id, name) == [id |-> id, name |-> name, notes |-> <<>>]

\* { id: generateID(), notebookId, ...object, postedOn }; seq is the ordinal
\* of the creation, a history field the source does not have
NoteData(id, notebookId, object, postedOn, seq) ==
  [id |-> id, notebookId |-> notebookId, title |-> object.title,
   text |-> object.text, postedOn |-> postedOn, seq |-> seq]

\* db.post.notebook(name) with the clock reading now
DbPostNotebook(item, name, now) ==
  LET db0 == ReadDB(item)
      notebookData == NotebookData(GenerateID(now), name)
      db1 == [db0 EXCEPT !.notebooks = Push(@, notebookData)]
  IN Done(db1, "postNotebook", "notebook", notebookData)

\* db.post.note(notebookId, object): generateID() reads the clock at now,
\* new Date().getTime() reads it at later; seq numbers the notes stored
DbPostNote(item, notebookId, object, now, later, seq) ==
  LET db0 == ReadDB(item)
      pos == FindNotebookPos(db0, notebookId)
      noteData == NoteData(GenerateID(now), notebookId, object, later, seq)
      db1 == IF pos = 0
               THEN db0
               ELSE [db0 EXCEPT !.notebooks[pos].notes = Unshift(@, noteData)]
  IN Done(db1, "postNote", "note", noteData)

(***************************************************************************)
(* db.get                                                                  *)
(***************************************************************************)
DbGetNotebook(item) ==
  LET db0 == ReadDB(item)
  IN Read(db0, item, "getNotebook", "notebooks", db0.notebooks)

DbGetNote(item, notebookId) ==
  LET db0 == ReadDB(item)
      pos == FindNotebookPos(db0, notebookId)
  IN IF pos = 0
       THEN Threw(db0, item, "getNote")
       ELSE Read(db0, item, "getNote", "notes", db0.notebooks[pos].notes)

(***************************************************************************)
(* db.update                                                               *)
(***************************************************************************)
\* a rename that builds the notebook anew
SetNameOfNewNotebook(notebook, name) ==
  [id |-> notebook.id, name |-> name, notes |-> <<>>]

\* notebook.name = name
SetName(notebook, name) == [notebook EXCEPT !.name = name]

DbUpdateNotebook(item, notebookId, name) ==
  LET db0 == ReadDB(item)
      pos == FindNotebookPos(db0, notebookId)
      db1 == [db0 EXCEPT !.notebooks[pos] = SetName(@, name)]
  IN IF pos = 0
       THEN Threw(db0, item, "updateNotebook")
       ELSE Done(db1, "updateNotebook", "notebook", db1.notebooks[pos])

DbUpdateNote(item, noteId, object) ==
  LET db0 == ReadDB(item)
      at == FindNotePos(db0, noteId)
      db1 == [db0 EXCEPT !.notebooks[at[1]].notes[at[2]] = ObjectAssign(@, object)]
  IN IF at = <<0, 0>>
       THEN Threw(db0, item, "updateNote")
       ELSE Done(db1, "updateNote", "note", db1.notebooks[at[1]].notes[at[2]])

(***************************************************************************)
(* db.delete                                                               *)
(***************************************************************************)
DbDeleteNotebook(item, notebookId) ==
  LET db0 == ReadDB(item)
      notebookIndex == FindNotebookIndex(db0, notebookId)
      db1 == [db0 EXCEPT !.notebooks = Splice(@, notebookIndex, 1)]
  IN Done(db1, "deleteNotebook", "undefined", Undefined)

DbDeleteNote(item, notebookId, noteId) ==
  LET db0 == ReadDB(item)
      pos == FindNotebookPos(db0, notebookId)
      noteIndex == FindNoteIndex(db0.notebooks[pos], noteId)
      db1 == [db0 EXCEPT !.notebooks[pos].notes = Splice(@, noteIndex, 1)]
  IN IF pos = 0
       THEN Threw(db0, item, "deleteNote")
       ELSE Done(db1, "deleteNote", "notes", db1.notebooks[pos].notes)

(***************************************************************************)
(* The operations as steps of the page.  Every db operation runs to its    *)
(* end without a suspension point.                                         *)
(***************************************************************************)
Apply(out) ==
  /\ noteKeeperDB' = out.mem
  /\ storage' = out.item
  /\ ret' = out.ret
  /\ UNCHANGED <<other, ui>>

PostNotebook(name) ==
  /\ created < MaxCreated
  /\ Apply(DbPostNotebook(storage, name, clock))
  /\ created' = created + 1
  /\ UNCHANGED clock

\* the clock may advance by elapsed between the two readings of one call
PostNote(notebookId, object, elapsed) ==
  LET stored == FindNotebookPos(ReadDB(storage), notebookId) # 0
  IN /\ clock + elapsed <= MaxClock
     /\ stored => created < MaxCreated
     /\ Apply(DbPostNote(storage, notebookId, object, clock, clock + elapsed,
                         created + 1))
     /\ clock' = clock + elapsed
     /\ created' = IF stored THEN created + 1 ELSE created

GetNotebook ==
  /\ Apply(DbGetNotebook(storage))
  /\ UNCHANGED <<clock, created>>

GetNote(notebookId) ==
  /\ Apply(DbGetNote(storage, notebookId))
  /\ UNCHANGED <<clock, created>>

UpdateNotebook(notebookId, name) ==
  /\ Apply(DbUpdateNotebook(storage, notebookId, name))
  /\ UNCHANGED <<clock, created>>

UpdateNote(noteId, object) ==
  /\ Apply(DbUpdateNote(storage, noteId, object))
  /\ UNCHANGED <<clock, created>>

DeleteNotebook(notebookId) ==
  /\ Apply(DbDeleteNotebook(storage, notebookId))
  /\ UNCHANGED <<clock, created>>

DeleteNote(notebookId, noteId) ==
  /\ Apply(DbDeleteNote(storage, notebookId, noteId))
  /\ UNCHANGED <<clock, created>>

\* time passes
Tick ==
  /\ clock < MaxClock
  /\ clock' = clock + 1
  /\ UNCHANGED <<storage, noteKeeperDB, created, ret, other, ui>>

\* the page is loaded again: db.js is evaluated anew and runs initDB()
PageLoad ==
  /\ noteKeeperDB' = InitDB(storage).mem
  /\ storage' = InitDB(storage).item
  /\ ret' = Returned("initDB", "undefined", Undefined)
  /\ UNCHANGED <<clock, created, other, ui>>

(***************************************************************************)
(* A second page of the same origin.  It has its own noteKeeperDB and the  *)
(* same slot; its db.post.notebook runs as the three statements of the     *)
(* handler, and the first page may run between any two of them.            *)
(***************************************************************************)
OtherNames == {"o1"}

\* the second page after db.js is evaluated; seen is the slot as the page
\* read it last, a history field the source does not have
OtherLoaded(item) ==
  [pc |-> "idle", mem |-> InitDB(item).mem, seen |-> InitDB(item).item]

\* a write that is dropped when the slot is no longer what the page read
SetItemIfUnchanged(item, value) == IF item = other.seen THEN value ELSE item

\* localStorage.setItem(key, value): the slot becomes value
SetItem(item, value) == value

\* readDB()
OtherReadDB ==
  /\ other.pc = "idle"
  /\ other' = [pc |-> "read", mem |-> ReadDB(storage), seen |-> storage]
  /\ UNCHANGED <<storage, noteKeeperDB, clock, created, ret, ui>>

\* notebookData = { id: generateID(), name, notes: [] }; notebooks.push
OtherPush(name) ==
  /\ other.pc = "read"
  /\ created < MaxCreated
  /\ other' = [other EXCEPT
                 !.pc = "pushed",
                 !.mem.notebooks =
                    Push(@, NotebookData(GenerateID(clock), name))]
  /\ created' = created + 1
  /\ UNCHANGED <<storage, noteKeeperDB, clock, ret, ui>>

\* writeDB(); return notebookData
OtherWriteDB ==
  /\ other.pc = "pushed"
  /\ storage' = SetItem(storage, WriteDB(other.mem))
  /\ other' = [other EXCEPT !.pc = "idle"]
  /\ UNCHANGED <<noteKeeperDB, clock, created, ret, ui>>

(***************************************************************************)
(* client.js: client.notebook.  The sidebar list is the sequence of its    *)
(* nav items, data-notebook and name of each; active is the position of    *)
(* $lastActiveItem in the list, 0 when it is not in the list; call is the  *)
(* client function that ran last, a history field.                         *)
(***************************************************************************)
NavItem(id, name) == [id |-> id, name |-> name]

NotebookDatas == {NavItem(id, name) : id \in StrIds, name \in Names}

RECURSIVE SeqsUpTo(_, _)
SeqsUpTo(S, n) ==
  IF n = 0 THEN {<<>>}
  ELSE SeqsUpTo(S, n - 1)
         \cup {Append(s, e) : s \in {t \in SeqsUpTo(S, n - 1) : Len(t) = n - 1},
                               e \in S}

NotebookLists == SeqsUpTo(NotebookDatas, MaxItems)

\* the page before client.notebook.read; the markup decides the attribute
ClientLoaded(disabled) ==
  [read |-> FALSE, sidebar |-> <<>>, active |-> 0, title |-> "",
   disabled |-> disabled, call |-> "none"]

\* a number as a condition
Truthy(n) == n # 0

\* buttons that are disabled when there is a notebook
DisabledWhenAny(isThereAnyNotebook) == isThereAnyNotebook

\* disableNoteCreateBtns: the disabled attribute of the note buttons
DisableNoteCreateBtns(isThereAnyNotebook) == ~isThereAnyNotebook

\* document.querySelector(`[data-notebook="${notebookId}"]`): the position
\* of the first such item, 0 for null
QuerySelector(sidebar, notebookId) ==
  FindIndex([i \in 1..Len(sidebar) |-> sidebar[i].id = notebookId]) + 1

\* client.notebook.create(notebookData)
ClientNotebookCreate(notebookData) ==
  /\ ui.read
  /\ Len(ui.sidebar) < MaxItems
  /\ ui' = [ui EXCEPT
              !.sidebar = Append(@, NavItem(notebookData.id, notebookData.name)),
              !.active = Len(ui.sidebar) + 1,
              !.title = notebookData.name,
              !.disabled = DisableNoteCreateBtns(TRUE),
              !.call = "create"]
  /\ UNCHANGED <<storage, noteKeeperDB, clock, created, ret, other>>

\* client.notebook.read(notebookList), once, on the loaded page
ClientNotebookRead(notebookList) ==
  /\ ~ui.read
  /\ ui' = [read |-> TRUE,
            sidebar |-> ui.sidebar \o
              [i \in 1..Len(notebookList) |->
                 NavItem(notebookList[i].id, notebookList[i].name)],
            active |-> IF notebookList # <<>> THEN Len(ui.sidebar) + 1
                       ELSE ui.active,
            title |-> IF notebookList # <<>> THEN notebookList[1].name
                      ELSE ui.title,
            disabled |-> DisableNoteCreateBtns(Truthy(Len(notebookList))),
            call |-> "read"]
  /\ UNCHANGED <<storage, noteKeeperDB, clock, created, ret, other>>

\* client.notebook.update(notebookId, notebookData); replaceChild throws on
\* null after the title is set
ClientNotebookUpdate(notebookId, notebookData) ==
  LET old == QuerySelector(ui.sidebar, notebookId)
  IN /\ ui.read
     /\ ui' = IF old = 0
                THEN [ui EXCEPT !.title = notebookData.name, !.call = "update"]
                ELSE [ui EXCEPT
                        !.call = "update",
                        !.title = notebookData.name,
                        !.sidebar[old] =
                           NavItem(notebookData.id, notebookData.name),
                        !.active = old]
     /\ UNCHANGED <<storage, noteKeeperDB, clock, created, ret, other>>

\* $activeNavItem.click(): the nav item becomes the active one
Click(u, pos) == [u EXCEPT !.active = pos, !.title = u.sidebar[pos].name]

\* the list without the item at pos; active follows its item
Remove(u, pos) ==
  [u EXCEPT !.sidebar = Splice(@, pos - 1, 1),
            !.active = IF u.active = pos THEN 0
                       ELSE IF u.active > pos THEN u.active - 1
                       ELSE u.active]

\* client.notebook.delete(notebookId); the member access throws on null
ClientNotebookDelete(notebookId) ==
  LET deleteNotebook == QuerySelector(ui.sidebar, notebookId)
      activeNavItem ==
        IF deleteNotebook < Len(ui.sidebar) THEN deleteNotebook + 1
        ELSE deleteNotebook - 1
  IN /\ ui.read
     /\ ui' = IF deleteNotebook = 0 THEN [ui EXCEPT !.call = "delete"]
              ELSE IF activeNavItem # 0
                THEN Remove(Click([ui EXCEPT !.call = "delete"], activeNavItem),
                            deleteNotebook)
                ELSE Remove([ui EXCEPT !.call = "delete",
                                       !.title = "",
                                       !.disabled = DisableNoteCreateBtns(FALSE)],
                            deleteNotebook)
     /\ UNCHANGED <<storage, noteKeeperDB, clock, created, ret, other>>

Init ==
  /\ storage = InitDB(NoItem).item
  /\ noteKeeperDB = InitDB(NoItem).mem
  /\ clock = 1
  /\ created = 0
  /\ ret = Returned("initDB", "undefined", Undefined)
  /\ other = OtherLoaded(NoItem)
  /\ ui = ClientLoaded(FALSE)

Next ==
  \/ \E name \in NewNames : PostNotebook(name)
  \/ \E notebookId \in StrIds, object \in NewNoteFields, elapsed \in 0..1 :
       PostNote(notebookId, object, elapsed)
  \/ GetNotebook
  \/ \E notebookId \in StrIds : GetNote(notebookId)
  \/ \E notebookId \in StrIds, name \in Names : UpdateNotebook(notebookId, name)
  \/ \E noteId \in StrIds, object \in PartialNoteFields : UpdateNote(noteId, object)
  \/ \E notebookId \in StrIds : DeleteNotebook(notebookId)
  \/ \E notebookId \in StrIds, noteId \in StrIds : DeleteNote(notebookId, noteId)
  \/ Tick
  \/ PageLoad

Spec == Init /\ [][Next]_vars

\* the two pages together; the first page works on its notebooks
NextTabs ==
  \/ \E name \in NewNames : PostNotebook(name)
  \/ GetNotebook
  \/ \E notebookId \in StrIds : DeleteNotebook(notebookId)
  \/ Tick
  \/ OtherReadDB
  \/ \E name \in OtherNames : OtherPush(name)
  \/ OtherWriteDB

SpecTabs == Init /\ [][NextTabs]_vars

\* the page of client.js, with either markup of the note buttons
InitUI ==
  /\ storage = InitDB(NoItem).item
  /\ noteKeeperDB = InitDB(NoItem).mem
  /\ clock = 1
  /\ created = 0
  /\ ret = Returned("initDB", "undefined", Undefined)
  /\ other = OtherLoaded(NoItem)
  /\ ui \in {ClientLoaded(disabled) : disabled \in BOOLEAN}

NextUI ==
  \/ \E notebookList \in NotebookLists : ClientNotebookRead(notebookList)
  \/ \E notebookData \in NotebookDatas : ClientNotebookCreate(notebookData)
  \/ \E notebookId \in StrIds, notebookData \in NotebookDatas :
       ClientNotebookUpdate(notebookId, notebookData)
  \/ \E notebookId \in StrIds : ClientNotebookDelete(notebookId)

SpecUI == InitUI /\ [][NextUI]_vars

(***************************************************************************)
(* The durable store and what the claims say about it.                     *)
(***************************************************************************)
Durable == JSONparse(storage)

HasNotebook(db, notebookId) ==
  \E i \in 1..Len(db.notebooks) : db.notebooks[i].id = notebookId

\* C1: deleting a notebook by an id that no notebook of the store has
\* leaves the durable store as it was.
C1_DeleteAbsentNotebookNoOp ==
  [][\A notebookId \in StrIds :
       (~HasNotebook(Durable, notebookId) /\ DeleteNotebook(notebookId))
         => storage' = storage]_vars

\* the notes of the whole store, in store order
AllNotes(db) ==
  LET RECURSIVE Cat(_)
      Cat(i) == IF i > Len(db.notebooks) THEN <<>>
                ELSE db.notebooks[i].notes \o Cat(i + 1)
  IN Cat(1)

NoTwoShareId(s) ==
  \A i, j \in 1..Len(s) : i # j => s[i].id # s[j].id

\* s without its element k
Without(s, k) == SubSeq(s, 1, k - 1) \o SubSeq(s, k + 1, Len(s))

\* C2: no two notebooks of the durable store share an id, and no two notes
\* anywhere in it share an id.
C2_IdsUnique ==
  /\ NoTwoShareId(Durable.notebooks)
  /\ NoTwoShareId(AllNotes(Durable))

\* C3: create note returns undefined when no notebook has the given id, and
\* the new note, stored first in its notebook, when one has.
C3_PostNoteReturn ==
  [][\A notebookId \in StrIds, object \in NewNoteFields, elapsed \in 0..1 :
       PostNote(notebookId, object, elapsed) =>
         IF HasNotebook(Durable, notebookId)
           THEN /\ ret'.kind = "note"
                /\ ret'.val = FindNotebook(JSONparse(storage'), notebookId).notes[1]
           ELSE ret'.kind = "undefined"]_vars

\* C4: delete note on a notebook that holds a note with the given id leaves
\* one note fewer, none with that id, the others in their order, and returns
\* the notes as persisted.
C4_DeleteNoteRemovesIt ==
  [][\A notebookId \in StrIds, noteId \in StrIds :
       LET pos == FindNotebookPos(Durable, notebookId)
           old == Durable.notebooks[pos].notes
           new == JSONparse(storage').notebooks[pos].notes
       IN (/\ pos # 0
           /\ \E k \in 1..Len(old) : old[k].id = noteId
           /\ DeleteNote(notebookId, noteId))
          => /\ Len(new) = Len(old) - 1
             /\ \A k \in 1..Len(new) : new[k].id # noteId
             /\ \E k \in 1..Len(old) : new = Without(old, k)
             /\ ret'.kind = "notes"
             /\ ret'.val = new]_vars

\* C5: delete notebook of an existing notebook leaves no notebook with that
\* id and no note findNote finds under an id the deleted notebook held; the
\* other notebooks stay as they were, in their order.
C5_DeleteNotebookRemovesAll ==
  [][\A notebookId \in StrIds :
       LET old == Durable
           new == JSONparse(storage')
       IN (HasNotebook(old, notebookId) /\ DeleteNotebook(notebookId))
          => \E p \in 1..Len(old.notebooks) :
               /\ old.notebooks[p].id = notebookId
               /\ new.notebooks = Without(old.notebooks, p)
               /\ ~HasNotebook(new, notebookId)
               /\ \A q \in 1..Len(old.notebooks[p].notes) :
                    FindNotePos(new, old.notebooks[p].notes[q].id) = <<0, 0>>]_vars

\* C6: in every notebook a note created later stands before a note created
\* earlier.
C6_NewestFirst ==
  \A p \in 1..Len(Durable.notebooks) :
    \A i, j \in 1..Len(Durable.notebooks[p].notes) :
      i < j => Durable.notebooks[p].notes[i].seq > Durable.notebooks[p].notes[j].seq

\* db.get.note has just listed a notebook of two or more notes
C6_TwoNotesListed ==
  \E p \in 1..Len(Durable.notebooks) :
    /\ Len(Durable.notebooks[p].notes) >= 2
    /\ ret.op = "getNote"
    /\ ret.kind = "notes"
    /\ ret.val = Durable.notebooks[p].notes

\* C7: every note carries the id of the notebook that holds it.
C7_NotesBelong ==
  \A p \in 1..Len(Durable.notebooks) :
    \A q \in 1..Len(Durable.notebooks[p].notes) :
      Durable.notebooks[p].notes[q].notebookId = Durable.notebooks[p].id

\* a note is held by the second of two notebooks with different ids
C7_NoteInSecondNotebook ==
  /\ Len(Durable.notebooks) >= 2
  /\ Durable.notebooks[1].id # Durable.notebooks[2].id
  /\ Len(Durable.notebooks[2].notes) >= 1

\* C8: update note with only a text, applied to any reachable store that
\* holds a note with the given id, changes the text of one such note and
\* nothing else in the store, and returns that note.
C8_UpdateTextOnly ==
  \A noteId \in StrIds, text \in {"x", "y"} :
    LET old == Durable
        out == DbUpdateNote(storage, noteId, OnlyText(text))
    IN (\E n \in 1..Len(AllNotes(old)) : AllNotes(old)[n].id = noteId)
       => \E p \in 1..Len(old.notebooks) :
            \E q \in 1..Len(old.notebooks[p].notes) :
              /\ old.notebooks[p].notes[q].id = noteId
              /\ JSONparse(out.item) =
                   [old EXCEPT !.notebooks[p].notes[q].text = text]
              /\ out.ret.kind = "note"
              /\ out.ret.val = [old.notebooks[p].notes[q] EXCEPT !.text = text]

\* db.update.note has just given a note the text "y"; another note exists
C8_TextUpdated ==
  /\ ret.op = "updateNote"
  /\ ret.kind = "note"
  /\ ret.val.text = "y"
  /\ ret.val.title = "t1"
  /\ ret.val = FindNote(Durable, ret.val.id)
  /\ Len(AllNotes(Durable)) >= 2

\* C9: rename notebook, applied to any reachable store that holds a
\* notebook with the given id, gives one such notebook the new name, which a
\* lookup of the id then returns, and changes nothing else in the store.
C9_RenameOnly ==
  \A notebookId \in StrIds, name \in Names :
    LET old == Durable
        new == JSONparse(DbUpdateNotebook(storage, notebookId, name).item)
    IN HasNotebook(old, notebookId)
       => /\ FindNotebook(new, notebookId).name = name
          /\ \E p \in 1..Len(old.notebooks) :
               /\ old.notebooks[p].id = notebookId
               /\ new = [old EXCEPT !.notebooks[p].name = name]

\* db.update.notebook has just renamed a notebook that holds notes
C9_Renamed ==
  /\ ret.op = "updateNotebook"
  /\ ret.kind = "notebook"
  /\ ret.val.name = "n2"
  /\ ret.val.notes # <<>>
  /\ Len(Durable.notebooks) >= 2

\* C10: the store parsed from the slot equals the in-memory store.
C10_RoundTrip == JSONparse(storage) = noteKeeperDB

\* db.delete.note has just written a store that a rename changed before
C10_AfterWrites ==
  /\ ret.op = "deleteNote"
  /\ ret.kind = "notes"
  /\ Len(AllNotes(Durable)) >= 1
  /\ \E p \in 1..Len(Durable.notebooks) : Durable.notebooks[p].name = "n2"

HasNote(db, noteId) ==
  \E n \in 1..Len(AllNotes(db)) : AllNotes(db)[n].id = noteId

\* C11: list notes, rename notebook and delete note under an id no notebook
\* has, and update note under an id no note has, end in an error and leave
\* the slot as it was.
C11_AbsentFails ==
  /\ \A notebookId \in StrIds :
       ~HasNotebook(Durable, notebookId) =>
         /\ DbGetNote(storage, notebookId).ret.kind = "throw"
         /\ DbGetNote(storage, notebookId).item = storage
         /\ \A name \in Names :
              /\ DbUpdateNotebook(storage, notebookId, name).ret.kind = "throw"
              /\ DbUpdateNotebook(storage, notebookId, name).item = storage
         /\ \A noteId \in StrIds :
              /\ DbDeleteNote(storage, notebookId, noteId).ret.kind = "throw"
              /\ DbDeleteNote(storage, notebookId, noteId).item = storage
  /\ \A noteId \in StrIds :
       ~HasNote(Durable, noteId) =>
         \A object \in PartialNoteFields :
           /\ DbUpdateNote(storage, noteId, object).ret.kind = "throw"
           /\ DbUpdateNote(storage, noteId, object).item = storage

\* db.delete.note has just failed on a store that holds a note
C11_DeleteNoteFailed ==
  /\ ret.op = "deleteNote"
  /\ ret.kind = "throw"
  /\ Len(AllNotes(Durable)) >= 1
  /\ noteKeeperDB = Durable

\* C12: create notebook leaves the notebooks there were, in their order,
\* followed by one new notebook with the given name and no notes, which is
\* the value returned.
C12_PostNotebookAppends ==
  \A name \in Names :
    LET out == DbPostNotebook(storage, name, clock)
    IN /\ out.ret.kind = "notebook"
       /\ out.ret.val.name = name
       /\ out.ret.val.notes = <<>>
       /\ JSONparse(out.item).notebooks = Append(Durable.notebooks, out.ret.val)

\* db.post.notebook has just added a notebook after one that holds a note
C12_SecondNotebookPosted ==
  /\ ret.op = "postNotebook"
  /\ Len(Durable.notebooks) = 2
  /\ Durable.notebooks[2] = ret.val
  /\ Durable.notebooks[1].notes # <<>>

\* C15: findNotebook and findNotebookIndex agree on every store and every
\* argument, a string or a number: the index is that of the notebook
\* findNotebook returns, and -1 when it returns none.
C15_SameSearch ==
  \A notebookId \in StrIds \cup {Num(n) : n \in 1..MaxClock} :
    FindNotebookIndex(Durable, notebookId)
      = FindNotebookPos(Durable, notebookId) - 1

\* C16: deleting a note from a notebook the store has, under an id no note
\* of that notebook has, removes nothing: the slot is as it was, and the
\* notes returned are as many as the notebook had.
C16_DeleteAbsentNoteNoOp ==
  [][\A notebookId \in StrIds, noteId \in StrIds :
       (/\ HasNotebook(Durable, notebookId)
        /\ FindNoteIndex(FindNotebook(Durable, notebookId), noteId) = -1
        /\ DeleteNote(notebookId, noteId))
         => /\ storage' = storage
            /\ ret'.kind = "notes"
            /\ Len(ret'.val) = Len(FindNotebook(Durable, notebookId).notes)]_vars

\* C13: a write-back replaces the slot by what the page read and its own
\* notebook, whatever the slot has become since the page read it; so a
\* notebook the first page stored in between is lost.
C13_WriteBackOverwrites ==
  [][OtherWriteDB =>
       LET own == other.mem.notebooks[Len(other.mem.notebooks)]
       IN /\ own.name \in OtherNames
          /\ Durable'.notebooks = Append(JSONparse(other.seen).notebooks, own)]_vars

\* both pages have completed one db.post.notebook, the first page after the
\* second page read the slot, and the slot holds the second page's notebook
\* alone
C13_LostUpdate ==
  /\ created = 2
  /\ ret.op = "postNotebook"
  /\ ret.val.name \in NewNames
  /\ other.pc = "idle"
  /\ Len(Durable.notebooks) = 1
  /\ Durable.notebooks[1].name \in OtherNames
  /\ Durable = other.mem

Stays(notebook) ==
  \E j \in 1..Len(Durable'.notebooks) : Durable'.notebooks[j] = notebook

\* C14: when the slot is no longer what the first page has in memory, a db
\* call of the first page leaves memory and slot equal, and every notebook
\* of the slot is still there after the call unless the call is
\* db.delete.notebook under that notebook's id.
C14_ForeignWriteKept ==
  [][(noteKeeperDB # Durable /\ other' = other /\ clock' = clock) =>
       /\ noteKeeperDB' = Durable'
       /\ \A notebookId \in StrIds :
            DeleteNotebook(notebookId) =>
              \A i \in 1..Len(Durable.notebooks) :
                Durable.notebooks[i].id # notebookId
                  => Stays(Durable.notebooks[i])
       /\ (~\E notebookId \in StrIds : DeleteNotebook(notebookId)) =>
            \A i \in 1..Len(Durable.notebooks) : Stays(Durable.notebooks[i])]_vars

\* C17: once client.notebook.read has run, the note buttons are disabled
\* exactly when the sidebar list has no nav item.
C17_DisabledIffNoNotebook ==
  ui.read => (ui.disabled <=> ui.sidebar = <<>>)

\* client.notebook.delete has just removed the only nav item
C17_LastNotebookDeleted ==
  /\ ui.read
  /\ ui.call = "delete"
  /\ ui.sidebar = <<>>
  /\ ui.disabled

====
